---- MODULE Spec2Model ----
(***************************************************************************)
(* A model of getAroundATriangularGrid.py: the vertex graph (Node,         *)
(* SlicerSoliton.__init__), the band classifier (slicer), the subset       *)
(* partitioner (sliceRunner, SliceSubSet.bfs), the chain reducer           *)
(* (SliceSubSet.reducer) and the highlighter (slicesHighlighter).          *)
(*                                                                         *)
(* Vertex ids are the source's 0-based ids; Python lists of ids are        *)
(* sequences.  Coordinates are integer triples, so projections are         *)
(* integers and the float comparison |a - b| <= edge * sqrt(3) is          *)
(* (a - b)^2 <= 3 * edge^2, with edge^2 the integer squared length.        *)
(***************************************************************************)
EXTENDS Integers, Sequences, FiniteSets, TLC

\* ------------------------------------------------------------------ bounds
\* Number of vertices of the enumerated meshes.
MaxNodes == 3
\* Largest z coordinate of a vertex (and largest height of the box mesh).
MaxZ == 2
\* Longest subSlicesIndices list handed to slicesHighlighter.
MaxIndicesLen == 2

VARIABLES
    coordinates,        \* Node.__coordinates, per vertex id
    bpyEdges,           \* SlicerSoliton.__initialBpyEdges
    sliceDirection,     \* SlicerSoliton.__sliceDirection
    neighboursIndices,  \* Node.__neighboursIndices, per vertex id
    rotatedZ,           \* Node.__rotatedZ, per vertex id
    sortedNodesIndices, \* SlicerSoliton.__sortedNodesIndices
    cubeEdgeLength2,    \* SlicerSoliton.__cubeEdgeLength, squared
    visited,            \* Node.__visited, per vertex id
    sliceName,          \* Node.__sliceName, per vertex id
    sliceSubSetName,    \* Node.__sliceSubSetName, per vertex id
    subSlicesDict,      \* SlicerSoliton.__subSlicesDict, in insertion order
    select,             \* bpy vertex .select flags
    pc,                 \* position of the driver script
    pos,                \* position of the running loop in sortedNodesIndices
    baseNode,           \* slicer's baseNode (an id)
    sliceIndex,         \* slicer's sliceIndex
    raised,             \* outcome of the last slicesHighlighter call
    rerun               \* whether reducer was called again on a stored subset

vars == <<coordinates, bpyEdges, sliceDirection, neighboursIndices, rotatedZ,
          sortedNodesIndices, cubeEdgeLength2, visited, sliceName,
          sliceSubSetName, subSlicesDict, select, pc, pos, baseNode,
          sliceIndex, raised, rerun>>

meshVars == <<coordinates, bpyEdges, sliceDirection, neighboursIndices,
              rotatedZ, sortedNodesIndices, cubeEdgeLength2>>

\* ----------------------------------------------------------------- helpers
Range(s) == {s[k] : k \in 1..Len(s)}

NodeIds == DOMAIN coordinates

NodesCount == Cardinality(DOMAIN coordinates)

\* npArray @ npArray on 3-vectors
Dot(a, b) == a[1] * b[1] + a[2] * b[2] + a[3] * b[3]

\* Node.rotateZ: the coordinate of a vertex along the slicing direction
rotateZ(co, npNormal) == Dot(co, npNormal)

\* sorted(range(n), key=...): Python's sort is stable, ties keep ascending id
RECURSIVE PySorted(_, _)
PySorted(ids, key) ==
    IF ids = {} THEN <<>>
    ELSE LET m == CHOOSE i \in ids :
                    \A j \in ids : key[i] < key[j] \/ (key[i] = key[j] /\ i <= j)
         IN  <<m>> \o PySorted(ids \ {m}, key)

\* buildGraph: every edge appends each end to the other end's list
RECURSIVE buildGraph(_, _, _)
buildGraph(nbrs, edges, k) ==
    IF k > Len(edges) THEN nbrs
    ELSE LET e  == edges[k]
             n1 == [nbrs EXCEPT ![e[1]] = Append(@, e[2])]
             n2 == [n1 EXCEPT ![e[2]] = Append(@, e[1])]
         IN  buildGraph(n2, edges, k + 1)

\* cubeEdgeLengthEval, squared: vertex 0 against its first listed neighbour
cubeEdgeLengthEval(co, nbrs) ==
    LET d == [k \in 1..3 |-> co[0][k] - co[nbrs[0][1]][k]]
    IN  Dot(d, d)

\* setSliceNameBase('slice') of the driver script
sliceNameBase == "slice"

\* sliceBaseID + str(sliceIndex)
SliceNameOf(idx) == sliceNameBase \o ToString(idx)

\* SliceSubSet.nodeSubSetName: slice name + str(subset index)
nodeSubSetName(name, idx) == name \o ToString(idx)

\* ------------------------------------------------------------------ inputs
\* Undirected vertex pairs in lexicographic order
RECURSIVE PairsFrom(_, _, _)
PairsFrom(u, v, n) ==
    IF u >= n - 1 THEN <<>>
    ELSE IF v >= n THEN PairsFrom(u + 1, u + 2, n)
    ELSE <<<<u, v>>>> \o PairsFrom(u, v + 1, n)

AllPairs(n) == PairsFrom(0, 1, n)

Reverse(s) == [k \in 1..Len(s) |-> s[Len(s) + 1 - k]]

KeepEdges(pairs, chosen) == SelectSeq(pairs, LAMBDA e : e \in chosen)

\* Meshes of MaxNodes vertices on the z axis with every edge set in which
\* vertex 0 has a neighbour, the edge list ascending or descending.
GridMeshes ==
    LET n     == MaxNodes
        pairs == AllPairs(n)
    IN  { [co |-> co,
           edges |-> IF up THEN KeepEdges(pairs, chosen)
                     ELSE Reverse(KeepEdges(pairs, chosen)),
           normal |-> <<0, 0, 1>>] :
            co \in [0..(n - 1) -> {<<0, 0, z>> : z \in 0..MaxZ}],
            chosen \in {c \in SUBSET Range(pairs) : \E e \in c : e[1] = 0},
            up \in BOOLEAN }

\* The 2x2x2 point grid: vertex i at (bit 0, bit 1, h * bit 2) of i, with the
\* 12 wireframe edges.  h = 1 is the unit cube.
BoxCo(h) == [i \in 0..7 |-> <<i % 2, (i \div 2) % 2, h * (i \div 4)>>]

BoxEdges ==
    << <<0, 1>>, <<0, 2>>, <<0, 4>>, <<1, 3>>, <<1, 5>>, <<2, 3>>,
       <<2, 6>>, <<3, 7>>, <<4, 5>>, <<4, 6>>, <<5, 7>>, <<6, 7>> >>

\* A list of coordinates as the vertex array, ids from 0
VertexArray(list) == [i \in 0..(Len(list) - 1) |-> list[i + 1]]

BoxMeshes ==
    { [co |-> BoxCo(h), edges |-> BoxEdges, normal |-> <<0, 0, 1>>] :
        h \in 1..MaxZ }

\* Three vertices in a row at unit spacing and a fourth at height h over the
\* first, joined to the first two: a triangle with a tail.
KiteMeshes ==
    { [co |-> VertexArray(<< <<0, 0, 0>>, <<1, 0, 0>>, <<2, 0, 0>>, <<0, 0, h>> >>),
       edges |-> << <<0, 1>>, <<0, 3>>, <<1, 2>>, <<1, 3>> >>,
       normal |-> <<0, 0, 1>>] :
        h \in 1..MaxZ }

\* Two vertices at height h at unit spacing, each with one more neighbour
\* that lies at height 0 or 2h.
ZigzagMeshes ==
    UNION { { [co |-> VertexArray(<< <<0, 0, h>>, <<1, 0, h>>, <<1, 0, a>>, <<0, 0, b>> >>),
               edges |-> << <<0, 1>>, <<0, 3>>, <<1, 2>> >>,
               normal |-> <<0, 0, 1>>] :
                a \in {0, 2 * h}, b \in {0, 2 * h} } :
            h \in 1..MaxZ }

\* A vertex with two arms of two vertices each, all at height 0, and one
\* neighbour at height h over it.
ForkMeshes ==
    { [co |-> VertexArray(<< <<0, 0, 0>>, <<1, 0, 0>>, <<0, 1, 0>>, <<2, 0, 0>>,
                             <<0, 2, 0>>, <<0, 0, h>> >>),
       edges |-> << <<0, 1>>, <<0, 2>>, <<1, 3>>, <<2, 4>>, <<0, 5>> >>,
       normal |-> <<0, 0, 1>>] :
        h \in 1..MaxZ }

InputMeshes ==
    GridMeshes \cup BoxMeshes \cup KiteMeshes \cup ZigzagMeshes \cup ForkMeshes

\* ---------------------------------------------------------------- __init__
Init ==
    \E m \in InputMeshes :
        LET ids  == DOMAIN m.co
            nbrs == buildGraph([i \in ids |-> <<>>], m.edges, 1)
            rz   == [i \in ids |-> rotateZ(m.co[i], m.normal)]
        IN  /\ coordinates = m.co
            /\ bpyEdges = m.edges
            /\ sliceDirection = m.normal
            /\ neighboursIndices = nbrs
            /\ rotatedZ = rz
            /\ sortedNodesIndices = PySorted(ids, rz)
            /\ cubeEdgeLength2 = cubeEdgeLengthEval(m.co, nbrs)
            /\ visited = [i \in ids |-> FALSE]
            /\ sliceName = [i \in ids |-> ""]
            /\ sliceSubSetName = [i \in ids |-> ""]
            /\ subSlicesDict = <<>>
            /\ select = [i \in ids |-> FALSE]
            /\ pc = "slicer"
            /\ pos = 1
            /\ baseNode = PySorted(ids, rz)[1]
            /\ sliceIndex = 0
            /\ raised = "none"
            /\ rerun = FALSE

\* ------------------------------------------------------------------ slicer
\* logestDiagonalLength, squared: (edge * 3 ** 0.5) ** 2
maxRotatedZ2 == 3 * cubeEdgeLength2

\* abs(baseNode.getRotatedZ() - currentNode.getRotatedZ()) <= actualDivergency
WithinDivergency_Divided(base, cur) ==
    3 * (rotatedZ[base] - rotatedZ[cur]) * (rotatedZ[base] - rotatedZ[cur])
        <= cubeEdgeLength2

WithinDivergency(base, cur) ==
    (rotatedZ[base] - rotatedZ[cur]) * (rotatedZ[base] - rotatedZ[cur])
        <= maxRotatedZ2

\* One iteration of slicer's loop over sortedIndices: the labels, the anchor
\* and the band counter after it.
SlicerBody_Drift(index) ==
    IF WithinDivergency(baseNode, index)
    THEN [names |-> [sliceName EXCEPT ![index] = SliceNameOf(sliceIndex)],
          base |-> index, idx |-> sliceIndex]
    ELSE [names |-> [sliceName EXCEPT ![index] = SliceNameOf(sliceIndex + 1)],
          base |-> index, idx |-> sliceIndex + 1]

SlicerBody_NoLabel(index) ==
    IF WithinDivergency(baseNode, index)
    THEN [names |-> [sliceName EXCEPT ![index] = SliceNameOf(sliceIndex)],
          base |-> baseNode, idx |-> sliceIndex]
    ELSE [names |-> sliceName, base |-> index, idx |-> sliceIndex + 1]

SlicerBody(index) ==
    IF WithinDivergency(baseNode, index)
    THEN [names |-> [sliceName EXCEPT ![index] = SliceNameOf(sliceIndex)],
          base |-> baseNode, idx |-> sliceIndex]
    ELSE [names |-> [sliceName EXCEPT ![index] = SliceNameOf(sliceIndex + 1)],
          base |-> index, idx |-> sliceIndex + 1]

SlicerStep ==
    /\ pc = "slicer"
    /\ LET r == SlicerBody(sortedNodesIndices[pos])
       IN  /\ sliceName' = r.names
           /\ baseNode' = r.base
           /\ sliceIndex' = r.idx
    /\ IF pos = NodesCount
       THEN pc' = "sliceRunner" /\ pos' = 1
       ELSE pc' = pc /\ pos' = pos + 1
    /\ UNCHANGED <<meshVars, visited, sliceSubSetName, subSlicesDict, select,
                   raised, rerun>>

\* --------------------------------------------------------------------- bfs
\* nodeToChek is taken when it has no subset name and the subset's slice name
BfsAccepts(names, neighbourIndex, sub) ==
    names[neighbourIndex] = "" /\ sliceName[neighbourIndex] = sub.sliceName

\* The for loop over one dequeued vertex's neighbours, from position k.
\* st = [queue, names, nodes]: bfsQueue, every vertex's subset name, and the
\* subset's __sliceSubSetNodes.
RECURSIVE BfsScan(_, _, _, _)
BfsScan(st, nbrs, k, sub) ==
    IF k > Len(nbrs) THEN st
    ELSE LET neighbourIndex == nbrs[k]
         IN  IF BfsAccepts(st.names, neighbourIndex, sub)
             THEN BfsScan([queue |-> Append(st.queue, neighbourIndex),
                           names |-> [st.names EXCEPT ![neighbourIndex] = sub.ownName],
                           nodes |-> Append(st.nodes, neighbourIndex)],
                          nbrs, k + 1, sub)
             ELSE BfsScan(st, nbrs, k + 1, sub)

\* bfsQueue.popleft()
BfsPop_Right(queue) ==
    [node |-> queue[Len(queue)], rest |-> SubSeq(queue, 1, Len(queue) - 1)]

BfsPop(queue) == [node |-> Head(queue), rest |-> Tail(queue)]

\* while len(bfsQueue)
RECURSIVE BfsLoop(_, _)
BfsLoop(st, sub) ==
    IF st.queue = <<>> THEN st
    ELSE LET p == BfsPop(st.queue)
         IN  BfsLoop(BfsScan([st EXCEPT !.queue = p.rest],
                             neighboursIndices[p.node], 1, sub), sub)

bfs(sub, initialNodeIndex, names) ==
    BfsLoop([queue |-> <<initialNodeIndex>>,
             names |-> [names EXCEPT ![initialNodeIndex] =
                           nodeSubSetName(sub.sliceName, sub.sliceSubSetIndex)],
             nodes |-> Append(sub.sliceSubSetNodes, initialNodeIndex)], sub)

\* ----------------------------------------------------------------- reducer
\* max(list, key=getRotatedZ) / min(...): the first extremal element wins
RECURSIVE PyMaxFrom(_, _, _)
PyMaxFrom(list, k, best) ==
    IF k > Len(list) THEN best
    ELSE PyMaxFrom(list, k + 1,
                   IF rotatedZ[list[k]] > rotatedZ[best] THEN list[k] ELSE best)

RECURSIVE PyMinFrom(_, _, _)
PyMinFrom(list, k, best) ==
    IF k > Len(list) THEN best
    ELSE PyMinFrom(list, k + 1,
                   IF rotatedZ[list[k]] < rotatedZ[best] THEN list[k] ELSE best)

ApplyStrategy(strategy, list) ==
    IF strategy = "max" THEN PyMaxFrom(list, 2, list[1])
    ELSE PyMinFrom(list, 2, list[1])

\* The strategy chosen from the seed's neighbours (strategy = max by default)
SelectStrategy_AnyBand(initialNodeIndex) ==
    IF \E k \in 1..Len(neighboursIndices[initialNodeIndex]) :
          rotatedZ[neighboursIndices[initialNodeIndex][k]] < rotatedZ[initialNodeIndex]
    THEN "min" ELSE "max"

SelectStrategy(initialNodeIndex) ==
    IF \E k \in 1..Len(neighboursIndices[initialNodeIndex]) :
          LET neighbourIndex == neighboursIndices[initialNodeIndex][k]
          IN  /\ rotatedZ[neighbourIndex] < rotatedZ[initialNodeIndex]
              /\ sliceName[neighbourIndex] # sliceName[initialNodeIndex]
    THEN "min" ELSE "max"

\* candidatIndices: the neighbours whose subset name is not the subset's own
Candidates(nodeIndex, names, ownName) ==
    SelectSeq(neighboursIndices[nodeIndex], LAMBDA index : names[index] # ownName)

\* The id addToReducedSlice receives inside the loop
ChainEntry_Result(nodeIndex, resultIndex) == resultIndex

ChainEntry(nodeIndex, resultIndex) == nodeIndex

\* One iteration of the loop over getAllNodesIndecies.
\* st = [reduced, visited]
ReducerVisit(nodeIndex, ownName, strategy, names, st) ==
    IF ~st.visited[nodeIndex]
    THEN LET candidatIndices == Candidates(nodeIndex, names, ownName)
             marked == [st EXCEPT !.visited[nodeIndex] = TRUE]
         IN  IF Len(candidatIndices) > 0
             THEN LET resultIndex ==
                          ApplyStrategy(strategy, Append(candidatIndices, nodeIndex))
                  IN  IF resultIndex # nodeIndex
                      THEN [marked EXCEPT !.reduced =
                               Append(@, ChainEntry(nodeIndex, resultIndex))]
                      ELSE marked
             ELSE marked
    ELSE st

RECURSIVE ReducerLoop(_, _, _, _, _)
ReducerLoop(sub, strategy, names, st, k) ==
    IF k > Len(sub.sliceSubSetNodes) THEN st
    ELSE ReducerLoop(sub, strategy, names,
                     ReducerVisit(sub.sliceSubSetNodes[k], sub.ownName, strategy,
                                  names, st),
                     k + 1)

\* reducer: the subset's reduced chain and the visited flags after the call
reducer(sub, names, vis) ==
    ReducerLoop(sub, SelectStrategy(sub.initialNodeIndex), names,
                [reduced |-> Append(sub.reducedSlice, sub.initialNodeIndex),
                 visited |-> vis], 1)

\* ------------------------------------------------------------- sliceRunner
\* The dict is a sequence of [key, subs] in insertion order
DictHas(dict, key) == \E k \in 1..Len(dict) : dict[k].key = key

DictPos(dict, key) == CHOOSE k \in 1..Len(dict) : dict[k].key = key

initiateNewSubSlicesList(dict, name) ==
    IF DictHas(dict, name) THEN dict
    ELSE Append(dict, [key |-> name, subs |-> <<>>])

appendNewSubSlice(dict, sub) ==
    [dict EXCEPT ![DictPos(dict, sub.sliceName)].subs = Append(@, sub)]

\* SliceSubSet.__init__
NewSliceSubSet(initialNodeIndex, sliceSubSetIndex) ==
    [sliceName |-> sliceName[initialNodeIndex],
     sliceSubSetIndex |-> sliceSubSetIndex,
     sliceSubSetNodes |-> <<>>,
     initialNodeIndex |-> initialNodeIndex,
     reducedSlice |-> <<>>,
     ownName |-> nodeSubSetName(sliceName[initialNodeIndex], sliceSubSetIndex)]

\* A vertex without a subset name and with a neighbour of another slice
IsBoundarySeed_NoBandTest(nodeIndex) ==
    sliceSubSetName[nodeIndex] = ""

IsBoundarySeed(nodeIndex) ==
    /\ sliceSubSetName[nodeIndex] = ""
    /\ \E k \in 1..Len(neighboursIndices[nodeIndex]) :
          sliceName[neighboursIndices[nodeIndex][k]] # sliceName[nodeIndex]

\* One iteration of sliceRunner's loop over sortedNodesIndices
SliceRunnerStep ==
    /\ pc = "sliceRunner"
    /\ LET nodeIndex == sortedNodesIndices[pos]
           dict1 == initiateNewSubSlicesList(subSlicesDict, sliceName[nodeIndex])
       IN  IF IsBoundarySeed(nodeIndex)
           THEN LET new == NewSliceSubSet(nodeIndex,
                              Len(dict1[DictPos(dict1, sliceName[nodeIndex])].subs))
                    b == bfs(new, nodeIndex, sliceSubSetName)
                    filled == [new EXCEPT !.sliceSubSetNodes = b.nodes]
                    r == reducer(filled, b.names, visited)
                IN  /\ sliceSubSetName' = b.names
                    /\ visited' = r.visited
                    /\ subSlicesDict' =
                          appendNewSubSlice(dict1, [filled EXCEPT !.reducedSlice = r.reduced])
           ELSE /\ subSlicesDict' = dict1
                /\ UNCHANGED <<sliceSubSetName, visited>>
    /\ IF pos = NodesCount
       THEN pc' = "done" /\ pos' = pos
       ELSE pc' = pc /\ pos' = pos + 1
    /\ UNCHANGED <<meshVars, sliceName, select, baseNode, sliceIndex, raised, rerun>>

\* reducer called once more on a stored subset
ReReduce ==
    /\ pc = "done"
    /\ ~rerun
    /\ \E b \in 1..Len(subSlicesDict) :
         \E i \in 1..Len(subSlicesDict[b].subs) :
            LET sub == subSlicesDict[b].subs[i]
                r == reducer(sub, sliceSubSetName, visited)
            IN  /\ subSlicesDict' =
                      [subSlicesDict EXCEPT ![b].subs[i].reducedSlice = r.reduced]
                /\ visited' = r.visited
    /\ rerun' = TRUE
    /\ UNCHANGED <<meshVars, sliceName, sliceSubSetName, select, pc, pos,
                   baseNode, sliceIndex, raised>>

\* ------------------------------------------------------- slicesHighlighter
\* Python list indexing: -n .. n-1 are in range, negative ones count from the end
PyInRange(i, n) == -n <= i /\ i < n

PyAt(i, n) == IF i < 0 THEN n + i + 1 ELSE i + 1

\* initialBpyNodes[subIndex].select = True for every id of a reduced chain
SelectChain(sel, chain) == [v \in DOMAIN sel |-> sel[v] \/ v \in Range(chain)]

RECURSIVE SelectAll(_, _, _)
SelectAll(sel, subSlicesArr, k) ==
    IF k > Len(subSlicesArr) THEN sel
    ELSE SelectAll(SelectChain(sel, subSlicesArr[k].reducedSlice), subSlicesArr, k + 1)

\* The loop over subSlicesIndices: subSlicesArr[index] raises IndexError, which
\* the except KeyError clause does not catch.
RECURSIVE SelectIndices(_, _, _, _)
SelectIndices(sel, subSlicesArr, subSlicesIndices, k) ==
    IF k > Len(subSlicesIndices) THEN [select |-> sel, raised |-> "none"]
    ELSE IF ~PyInRange(subSlicesIndices[k], Len(subSlicesArr))
    THEN [select |-> sel, raised |-> "IndexError"]
    ELSE SelectIndices(
            SelectChain(sel, subSlicesArr[PyAt(subSlicesIndices[k],
                                               Len(subSlicesArr))].reducedSlice),
            subSlicesArr, subSlicesIndices, k + 1)

slicesHighlighter(sliceIdx, subSlicesIndices) ==
    IF ~PyInRange(sliceIdx, Len(subSlicesDict))
    THEN [select |-> select, raised |-> "IndexError"]
    ELSE LET subSlicesArr == subSlicesDict[PyAt(sliceIdx, Len(subSlicesDict))].subs
         IN  IF subSlicesIndices # <<>>
             THEN SelectIndices(select, subSlicesArr, subSlicesIndices, 1)
             ELSE [select |-> SelectAll(select, subSlicesArr, 1), raised |-> "none"]

\* The indices a caller may pass: every slice index from -1 to one past the
\* last; for a slice that exists, every subset index from 0 to one past its
\* last subset
SliceIndexInputs == -1..Len(subSlicesDict)

SubIndexInputs(sliceIdx) ==
    IF PyInRange(sliceIdx, Len(subSlicesDict))
    THEN 0..Len(subSlicesDict[PyAt(sliceIdx, Len(subSlicesDict))].subs)
    ELSE {0}

IndexListInputs(sliceIdx) ==
    UNION {[1..n -> SubIndexInputs(sliceIdx)] : n \in 0..MaxIndicesLen}

SlicesHighlighter(sliceIdx, subSlicesIndices) ==
    /\ pc = "done"
    /\ LET r == slicesHighlighter(sliceIdx, subSlicesIndices)
       IN  /\ select' = r.select
           /\ raised' = r.raised
    /\ pc' = "end"
    /\ UNCHANGED <<meshVars, visited, sliceName, sliceSubSetName, subSlicesDict,
                   pos, baseNode, sliceIndex, rerun>>

Highlight ==
    \E sliceIdx \in SliceIndexInputs :
        \E subSlicesIndices \in IndexListInputs(sliceIdx) :
            SlicesHighlighter(sliceIdx, subSlicesIndices)

Next ==
    \/ SlicerStep
    \/ SliceRunnerStep
    \/ ReReduce
    \/ Highlight

Spec == Init /\ [][Next]_vars

\* ------------------------------------------------------------------ claims
\* Every stored subset, and the subsets a step adds to the dict
SubsetsOf(dict) ==
    UNION {Range(dict[b].subs) : b \in 1..Len(dict)}

AllSubsets == SubsetsOf(subSlicesDict)

AddedSubsets(before, after) ==
    UNION { {after[b].subs[i] :
                i \in {j \in 1..Len(after[b].subs) :
                          ~(b <= Len(before) /\ j <= Len(before[b].subs))}} :
            b \in 1..Len(after) }

Finished == pc \in {"done", "end"}

BandNames == {sliceName[v] : v \in NodeIds}

BandMembers(name) == {v \in NodeIds : sliceName[v] = name}

NoRepeats(list) ==
    \A j, k \in 1..Len(list) : list[j] = list[k] => j = k

\* a is b with some elements left out, the order kept
RECURSIVE IsSubsequence(_, _)
IsSubsequence(a, b) ==
    IF a = <<>> THEN TRUE
    ELSE IF b = <<>> THEN FALSE
    ELSE IF Head(a) = Head(b) THEN IsSubsequence(Tail(a), Tail(b))
    ELSE IsSubsequence(a, Tail(b))

IsUnitCube ==
    /\ coordinates = BoxCo(1)
    /\ bpyEdges = BoxEdges
    /\ sliceDirection = <<0, 0, 1>>

\* C1 as stated: on the unit cube with direction (0,0,1) (edge length 1,
\* threshold sqrt(3)) slicer yields exactly 2 bands of 4 vertices each, the
\* z = 0 and the z = 1 layer, and sliceRunner yields for each band a subset
\* whose reduced chain holds all 4 vertices of the layer.
C1_TwoBandsOfFour ==
    (IsUnitCube /\ Finished) =>
        /\ cubeEdgeLength2 = 1
        /\ Cardinality(BandNames) = 2
        /\ \A name \in BandNames :
              /\ Cardinality(BandMembers(name)) = 4
              /\ \E z \in {0, 1} :
                    BandMembers(name) = {v \in NodeIds : coordinates[v][3] = z}
              /\ \E S \in AllSubsets :
                    S.sliceName = name /\ BandMembers(name) \subseteq Range(S.reducedSlice)

\* C1 amended: on the unit cube with direction (0,0,1) the edge length is 1
\* and slicer yields exactly 1 band holding all 8 vertices (the layers are 1
\* apart, within sqrt(3)); sliceRunner then creates no subset: the band's
\* subset list is empty and no vertex has a subset name or is visited.
C1_CubeOneBand ==
    (IsUnitCube /\ Finished) =>
        /\ cubeEdgeLength2 = 1
        /\ \A v \in NodeIds : sliceName[v] = "slice0"
        /\ Len(subSlicesDict) = 1
        /\ subSlicesDict[1].key = "slice0"
        /\ subSlicesDict[1].subs = <<>>
        /\ \A v \in NodeIds : sliceSubSetName[v] = "" /\ ~visited[v]

C1_Witness == IsUnitCube /\ pc = "done" /\ NodesCount = 8

\* C2: for every subset, every id of the reduced chain is a member of the
\* subset, and the chain's first element is the subset's seed vertex.
C2_ChainWithinMembers ==
    \A S \in AllSubsets :
        /\ Range(S.reducedSlice) \subseteq Range(S.sliceSubSetNodes)
        /\ S.reducedSlice # <<>>
        /\ S.reducedSlice[1] = S.initialNodeIndex

C2_Witness ==
    /\ Finished
    /\ \E S \in AllSubsets :
          /\ Cardinality(Range(S.reducedSlice)) >= 2
          /\ Range(S.reducedSlice) # Range(S.sliceSubSetNodes)

\* C3 as stated: calling reducer a second time on a reduced subset, all of
\* whose members are visited, leaves the reduced chain unchanged.
C3_RerunLeavesChain ==
    [][(~rerun /\ rerun') => subSlicesDict' = subSlicesDict]_vars

\* C4 as stated: slicesHighlighter with a slice index not below the number of
\* bands, or with a list holding a subset index the chosen band does not
\* have, raises an index error and changes nothing: no select flag, label,
\* visited flag or reduced chain.
C4_BadIndexChangesNothing ==
    [][\A sliceIdx \in SliceIndexInputs :
         \A subSlicesIndices \in IndexListInputs(sliceIdx) :
            ( /\ SlicesHighlighter(sliceIdx, subSlicesIndices)
              /\ \/ sliceIdx >= Len(subSlicesDict)
                 \/ /\ PyInRange(sliceIdx, Len(subSlicesDict))
                    /\ \E k \in 1..Len(subSlicesIndices) :
                          subSlicesIndices[k] >=
                            Len(subSlicesDict[PyAt(sliceIdx, Len(subSlicesDict))].subs) )
            => /\ raised' = "IndexError"
               /\ select' = select
               /\ UNCHANGED <<sliceName, sliceSubSetName, visited, subSlicesDict>>
      ]_vars

\* The anchor of a band: the first vertex in ascending-projection order that
\* carries its label
BandAnchor(name) ==
    sortedNodesIndices[CHOOSE k \in 1..Len(sortedNodesIndices) :
        /\ sliceName[sortedNodesIndices[k]] = name
        /\ \A j \in 1..(k - 1) : sliceName[sortedNodesIndices[j]] # name]

\* C5: every labelled vertex is within the threshold, edge * sqrt(3), of its
\* band's anchor, the first vertex in ascending-projection order with that
\* label: d <= edge * sqrt(3) as d^2 <= 3 * edge^2.
C5_WithinThresholdOfAnchor ==
    \A v \in NodeIds :
        sliceName[v] # "" =>
            LET d == rotatedZ[v] - rotatedZ[BandAnchor(sliceName[v])]
            IN  d * d <= 3 * cubeEdgeLength2

C5_Witness ==
    /\ Finished
    /\ Cardinality(BandNames) >= 2
    /\ \E v, w \in NodeIds :
          sliceName[v] = sliceName[w] /\ rotatedZ[v] # rotatedZ[w]

\* C6: a band label is written only over the empty label and is never empty,
\* each iteration of slicer's loop writes exactly one label, and once slicer
\* has completed every vertex has a non-empty label.
C6_LabelledExactlyOnce ==
    [][ /\ \A v \in NodeIds :
              sliceName'[v] # sliceName[v] => (sliceName[v] = "" /\ sliceName'[v] # "")
        /\ pc = "slicer" =>
              Cardinality({v \in NodeIds : sliceName'[v] # sliceName[v]}) = 1
        /\ pc' # "slicer" => \A v \in NodeIds : sliceName'[v] # ""
      ]_vars

C6_Witness ==
    /\ pc = "sliceRunner"
    /\ Cardinality(BandNames) >= 2
    /\ \A v \in NodeIds : sliceName[v] # ""

\* C7: a vertex other than vertex 0 with an empty neighbour list has a band
\* label, and after sliceRunner it has no subset name, is in no subset and in
\* no reduced chain, and is not visited.
C7_IsolatedVertexUnclaimed ==
    Finished =>
        \A v \in NodeIds :
            (v # 0 /\ neighboursIndices[v] = <<>>) =>
                /\ sliceName[v] # ""
                /\ sliceSubSetName[v] = ""
                /\ ~visited[v]
                /\ \A S \in AllSubsets :
                      v \notin Range(S.sliceSubSetNodes) /\ v \notin Range(S.reducedSlice)

C7_Witness ==
    /\ Finished
    /\ AllSubsets # {}
    /\ \E v \in NodeIds : v # 0 /\ neighboursIndices[v] = <<>>

\* The vertices reachable from found along edges through allowed vertices
RECURSIVE ReachFrom(_, _)
ReachFrom(found, allowed) ==
    LET more == found \cup
                {v \in allowed : \E u \in found : v \in Range(neighboursIndices[u])}
    IN  IF more = found THEN found ELSE ReachFrom(more, allowed)

\* The position in members of the member that discovers members[j]: the
\* first member that lists it as a neighbour
DiscovererPos(members, j) ==
    CHOOSE i \in 1..Len(members) :
        /\ members[j] \in Range(neighboursIndices[members[i]])
        /\ \A h \in 1..(i - 1) : members[j] \notin Range(neighboursIndices[members[h]])

FirstListed(list, x) ==
    CHOOSE k \in 1..Len(list) : list[k] = x /\ \A h \in 1..(k - 1) : list[h] # x

\* Breadth-first order: no repeats, every later member found by an earlier
\* one, members in the order of their discoverers and, under one discoverer,
\* in the order of its neighbour list
FifoOrder(members) ==
    /\ NoRepeats(members)
    /\ \A j \in 2..Len(members) :
          /\ \E i \in 1..(j - 1) : members[j] \in Range(neighboursIndices[members[i]])
          /\ \A k \in (j + 1)..Len(members) :
                LET pj == DiscovererPos(members, j)
                    pk == DiscovererPos(members, k)
                IN  \/ pj < pk
                    \/ /\ pj = pk
                       /\ FirstListed(neighboursIndices[members[pj]], members[j])
                            < FirstListed(neighboursIndices[members[pj]], members[k])

\* C8: the members of a subset created by sliceRunner from seed s are exactly
\* the vertices reachable from s through vertices of s's band that had no
\* subset name when the search started, in FIFO discovery order with s first;
\* every member carries the subset's name, no member is in another subset, no
\* vertex of another band is a member.
C8_BfsTakesWholeRegion ==
    [][\A S \in AddedSubsets(subSlicesDict, subSlicesDict') :
          LET s == S.initialNodeIndex
              free == {v \in NodeIds :
                          sliceName[v] = sliceName[s] /\ sliceSubSetName[v] = ""}
              members == S.sliceSubSetNodes
          IN  /\ s = sortedNodesIndices[pos]
              /\ s \in free
              /\ Range(members) = ReachFrom({s}, free)
              /\ members[1] = s
              /\ FifoOrder(members)
              /\ \A v \in NodeIds :
                    sliceSubSetName'[v] =
                        IF v \in Range(members) THEN S.ownName ELSE sliceSubSetName[v]
              /\ \A v \in Range(members) : sliceName[v] = S.sliceName
              /\ \A T \in SubsetsOf(subSlicesDict) :
                    Range(T.sliceSubSetNodes) \cap Range(members) = {}
      ]_vars

C8_Witness ==
    /\ Finished
    /\ Cardinality(BandNames) >= 2
    /\ \E S \in AllSubsets :
          /\ Len(S.sliceSubSetNodes) >= 5
          /\ \E v \in Range(S.sliceSubSetNodes) :
                v \notin Range(neighboursIndices[S.initialNodeIndex]) \cup {S.initialNodeIndex}

\* The seed has a neighbour of strictly smaller projection in another band
PicksMinimum(s) ==
    \E u \in Range(neighboursIndices[s]) :
        rotatedZ[u] < rotatedZ[s] /\ sliceName[u] # sliceName[s]

\* The first element of list with the least (minimum) or greatest projection
FirstExtremal(list, minimum) ==
    list[CHOOSE k \in 1..Len(list) :
            /\ \A j \in 1..Len(list) :
                  IF minimum THEN rotatedZ[list[k]] <= rotatedZ[list[j]]
                  ELSE rotatedZ[list[k]] >= rotatedZ[list[j]]
            /\ \A j \in 1..(k - 1) : rotatedZ[list[j]] # rotatedZ[list[k]]]

\* The neighbours of v, in list order, whose subset name is not ownName
Outside(v, names, ownName) ==
    SelectSeq(neighboursIndices[v], LAMBDA u : names[u] # ownName)

\* The condition under which member v enters the chain of S
IsAppended(v, S, names, vis) ==
    /\ ~vis[v]
    /\ Outside(v, names, S.ownName) # <<>>
    /\ FirstExtremal(Append(Outside(v, names, S.ownName), v),
                     PicksMinimum(S.initialNodeIndex)) # v

\* What one call of reducer adds to the chain of S
ReducerAppends(S, names, vis) ==
    <<S.initialNodeIndex>> \o
        SelectSeq(S.sliceSubSetNodes, LAMBDA v : IsAppended(v, S, names, vis))

\* C9: reducer puts the seed first, then appends a member, in member order,
\* exactly when it was not visited, has a neighbour whose subset name is not
\* the subset's own, and the first extremal element of those neighbours
\* followed by the member itself is not the member; the extremum is the
\* minimum exactly when the seed has a neighbour of smaller projection in
\* another band, else the maximum.
C9_ReducerRetention ==
    [][ /\ \A S \in AddedSubsets(subSlicesDict, subSlicesDict') :
              S.reducedSlice = ReducerAppends(S, sliceSubSetName', visited)
        /\ \A b \in 1..Len(subSlicesDict) :
              \A i \in 1..Len(subSlicesDict[b].subs) :
                 LET S == subSlicesDict[b].subs[i]
                     after == subSlicesDict'[b].subs[i].reducedSlice
                 IN  \/ after = S.reducedSlice
                     \/ after = S.reducedSlice \o ReducerAppends(S, sliceSubSetName, visited)
      ]_vars

C9_Witness ==
    /\ Finished
    /\ \E S \in AllSubsets :
          /\ PicksMinimum(S.initialNodeIndex)
          /\ Len(S.reducedSlice) >= 2
          /\ \E v \in Range(S.sliceSubSetNodes) :
                v \notin Range(S.reducedSlice) /\ Outside(v, sliceSubSetName, S.ownName) # <<>>

\* C10 as stated: every reduced chain is an ordered subsequence of the
\* subset's members, each id at most once, the seed included.
C10_ChainIsSubsequence ==
    \A S \in AllSubsets :
        /\ NoRepeats(S.reducedSlice)
        /\ IsSubsequence(S.reducedSlice, S.sliceSubSetNodes)
====
